---- MODULE Spec2Model ----
(***************************************************************************)
(* The GPT model of qdl.js: the A/B slot attribute state machine           *)
(* (GPT.setActiveSlot, GPT.getActiveSlot, parseABFlags) over the decoded   *)
(* partition entries of a GPT instance.                                    *)
(*                                                                         *)
(* A 64-bit attributes word (a BigInt below 2^64 in the source) is the set *)
(* of the positions of its one bits, so that &, |, ~, << and >> are set    *)
(* operations and no bit of the word is lost to integer width.  A string   *)
(* is the sequence of its characters, so that startsWith and slice(-2) are *)
(* computed on the characters.                                             *)
(***************************************************************************)
EXTENDS Integers, Sequences, FiniteSets, TLC

VARIABLES
  header,       \* GPT.#header: the decoded GPTHeader view
  partEntries,  \* GPT.#partEntries: the decoded GPTPartitionEntry views, in stored order
  last,         \* the most recent call on the GPT: [op, arg, result]
  prior,        \* the call before the most recent slot call (setActiveSlot,
                \* getActiveSlot): [op, arg]
  pre,          \* [header, partEntries] as they were when the most recent call began
  orig,         \* #partEntries as parsed, before any call
  sectorSize,   \* GPT.sectorSize
  alternate     \* the GPT the most recent asAlternate returned: [header, partEntries,
                \* sectorSize, aliased], or NoGPT before any asAlternate

vars == <<header, partEntries, last, prior, pre, orig, sectorSize, alternate>>

----------------------------------------------------------------------------
(* Bounds of the model *)

\* the longest entry array the model parses
MaxEntries == 2

----------------------------------------------------------------------------
(* BigInt words as sets of bit positions *)

\* uint64(): the width of the attributes field
WORD_BITS == 64

WordBitPositions == 0 .. (WORD_BITS - 1)

RECURSIVE Pow2(_)
Pow2(n) == IF n = 0 THEN 1 ELSE 2 * Pow2(n - 1)

\* the BigInt literal n (a small natural number) as a word
RECURSIVE BitsFrom(_, _)
BitsFrom(n, pos) ==
  IF n = 0 THEN {}
  ELSE (IF n % 2 = 1 THEN {pos} ELSE {}) \cup BitsFrom(n \div 2, pos + 1)

BigInt(n) == BitsFrom(n, 0)

\* Number(w) of a word
RECURSIVE Number(_)
Number(w) ==
  IF w = {} THEN 0
  ELSE LET b == CHOOSE x \in w : TRUE IN Pow2(b) + Number(w \ {b})

\* a & b, a | b, ~a, a << k, a >> k
And(a, b) == a \cap b
Or(a, b) == a \cup b
\* ~a is -a-1 on BigInt; its bits below WORD_BITS are the complement, and every
\* use in the source is (attributes & ~mask) with attributes below 2^WORD_BITS
Not(a) == WordBitPositions \ a
Shl(a, k) == {b + k : b \in a}
Shr(a, k) == {b - k : b \in {x \in a : x >= k}}

----------------------------------------------------------------------------
(* Constants of the source *)

SIGNATURE == <<"E", "F", "I", " ", "P", "A", "R", "T">>
TYPE_EFI_UNUSED == "00000000-0000-0000-0000-000000000000"

PART_ATT_PRIORITY_BIT == 48
PART_ATT_ACTIVE_BIT == 50
PART_ATT_RETRY_CNT_BIT == 51
PART_ATT_SUCCESS_BIT == 54
PART_ATT_UNBOOTABLE_BIT == 55

PART_ATT_PRIORITY_MASK == Shl(BigInt(3), PART_ATT_PRIORITY_BIT)
PART_ATT_ACTIVE_VAL == Shl(BigInt(1), PART_ATT_ACTIVE_BIT)
PART_ATT_RETRY_MASK == Shl(BigInt(7), PART_ATT_RETRY_CNT_BIT)
PART_ATT_SUCCESS_VAL == Shl(BigInt(1), PART_ATT_SUCCESS_BIT)
\* variant: the unbootable bit taken one position too high
PART_ATT_UNBOOTABLE_VAL_OffByOne == Shl(BigInt(1), PART_ATT_UNBOOTABLE_BIT + 1)
PART_ATT_UNBOOTABLE_VAL == Shl(BigInt(1), PART_ATT_UNBOOTABLE_BIT)

MAX_PRIORITY == 3
MAX_RETRY_COUNT == 7

----------------------------------------------------------------------------
(* Strings as character sequences *)

\* s.startsWith(p)
StartsWith(s, p) == Len(s) >= Len(p) /\ SubSeq(s, 1, Len(p)) = p

\* s.slice(-2): the last two characters, or all of s when it is shorter
SliceLast2(s) == IF Len(s) <= 2 THEN s ELSE SubSeq(s, Len(s) - 1, Len(s))

Str_boot == <<"b", "o", "o", "t">>
Str_boot_ == <<"b", "o", "o", "t", "_">>
Str_a == <<"_", "a">>
Str_b == <<"_", "b">>
Slot_a == <<"a">>
Slot_b == <<"b">>
\* the null that getActiveSlot returns; no character sequence equals it
NULL == <<"null">>

----------------------------------------------------------------------------
(* parseABFlags *)

parseABFlags(attributes) ==
  [ priority |-> Number(Shr(And(attributes, PART_ATT_PRIORITY_MASK), PART_ATT_PRIORITY_BIT)),
    active |-> And(attributes, PART_ATT_ACTIVE_VAL) # BigInt(0),
    triesRemaining |-> Number(Shr(And(attributes, PART_ATT_RETRY_MASK), PART_ATT_RETRY_CNT_BIT)),
    successful |-> And(attributes, PART_ATT_SUCCESS_VAL) # BigInt(0),
    unbootable |-> And(attributes, PART_ATT_UNBOOTABLE_VAL) # BigInt(0) ]

----------------------------------------------------------------------------
(* GPT.getActiveSlot *)

\* variant: a later entry of equal priority replaces an earlier one (>=)
GetActiveSlotStep_LastWins(best, partEntry) ==
  IF partEntry.type = TYPE_EFI_UNUSED THEN best
  ELSE IF ~StartsWith(partEntry.name, Str_boot_) THEN best
  ELSE LET slot == SliceLast2(partEntry.name) IN
    IF slot # Str_a /\ slot # Str_b THEN best
    ELSE LET flags == parseABFlags(partEntry.attributes) IN
      IF flags.active /\ flags.priority >= best.priority
      THEN [slot |-> IF slot = Str_a THEN Slot_a ELSE Slot_b, priority |-> flags.priority]
      ELSE best

\* variant: the name test of setActiveSlot ("boot") in place of "boot_"
GetActiveSlotStep_AnyBoot(best, partEntry) ==
  IF partEntry.type = TYPE_EFI_UNUSED THEN best
  ELSE IF ~StartsWith(partEntry.name, Str_boot) THEN best
  ELSE LET slot == SliceLast2(partEntry.name) IN
    IF slot # Str_a /\ slot # Str_b THEN best
    ELSE LET flags == parseABFlags(partEntry.attributes) IN
      IF flags.active /\ flags.priority > best.priority
      THEN [slot |-> IF slot = Str_a THEN Slot_a ELSE Slot_b, priority |-> flags.priority]
      ELSE best

\* one iteration of the loop: best is [slot, priority]
GetActiveSlotStep(best, partEntry) ==
  IF partEntry.type = TYPE_EFI_UNUSED THEN best
  ELSE IF ~StartsWith(partEntry.name, Str_boot_) THEN best
  ELSE LET slot == SliceLast2(partEntry.name) IN
    IF slot # Str_a /\ slot # Str_b THEN best
    ELSE LET flags == parseABFlags(partEntry.attributes) IN
      IF flags.active /\ flags.priority > best.priority
      THEN [slot |-> IF slot = Str_a THEN Slot_a ELSE Slot_b, priority |-> flags.priority]
      ELSE best

\* the loop over the first n entries, in stored order
RECURSIVE GetActiveSlotLoop(_, _)
GetActiveSlotLoop(entries, n) ==
  IF n = 0 THEN [slot |-> NULL, priority |-> -1]
  ELSE GetActiveSlotStep(GetActiveSlotLoop(entries, n - 1), entries[n])

getActiveSlot(entries) == GetActiveSlotLoop(entries, Len(entries)).slot

----------------------------------------------------------------------------
(* GPT.setActiveSlot *)

\* variant: successful and unbootable left out of the cleared mask
ActivateBoot_KeepsOutcome(attributes) ==
  Or(Or(Or(And(attributes,
               Not(Or(Or(PART_ATT_PRIORITY_MASK, PART_ATT_ACTIVE_VAL), PART_ATT_RETRY_MASK))),
           Shl(BigInt(MAX_PRIORITY), PART_ATT_PRIORITY_BIT)),
        PART_ATT_ACTIVE_VAL),
     Shl(BigInt(MAX_RETRY_COUNT), PART_ATT_RETRY_CNT_BIT))

\* variant: the active bit cleared by the mask and not set again
ActivateBoot_NotActive(attributes) ==
  Or(Or(And(attributes,
            Not(Or(Or(Or(Or(PART_ATT_PRIORITY_MASK, PART_ATT_ACTIVE_VAL),
                         PART_ATT_RETRY_MASK), PART_ATT_SUCCESS_VAL),
                   PART_ATT_UNBOOTABLE_VAL))),
        Shl(BigInt(MAX_PRIORITY), PART_ATT_PRIORITY_BIT)),
     Shl(BigInt(MAX_RETRY_COUNT), PART_ATT_RETRY_CNT_BIT))

\* active boot entry: priority=3, active=1, retry=7, successful=0, unbootable=0
ActivateBoot(attributes) ==
  Or(Or(Or(And(attributes,
               Not(Or(Or(Or(Or(PART_ATT_PRIORITY_MASK, PART_ATT_ACTIVE_VAL),
                            PART_ATT_RETRY_MASK), PART_ATT_SUCCESS_VAL),
                      PART_ATT_UNBOOTABLE_VAL))),
           Shl(BigInt(MAX_PRIORITY), PART_ATT_PRIORITY_BIT)),
        PART_ATT_ACTIVE_VAL),
     Shl(BigInt(MAX_RETRY_COUNT), PART_ATT_RETRY_CNT_BIT))

\* variant: the retry count cleared along with priority and active
DeactivateBoot_ClearsRetry(attributes) ==
  Or(And(attributes,
         Not(Or(Or(PART_ATT_PRIORITY_MASK, PART_ATT_ACTIVE_VAL), PART_ATT_RETRY_MASK))),
     Shl(BigInt(MAX_PRIORITY - 1), PART_ATT_PRIORITY_BIT))

\* inactive boot entry: priority=2, active=0 (other flags unchanged)
DeactivateBoot(attributes) ==
  Or(And(attributes, Not(Or(PART_ATT_PRIORITY_MASK, PART_ATT_ACTIVE_VAL))),
     Shl(BigInt(MAX_PRIORITY - 1), PART_ATT_PRIORITY_BIT))

\* variant: the active bit of a non-boot entry of the other slot left as it is
MarkInactive_Keeps(attributes) == attributes

\* variant: attributes ^= ACTIVE
MarkActive_Toggles(attributes) ==
  Or(And(attributes, Not(PART_ATT_ACTIVE_VAL)), And(PART_ATT_ACTIVE_VAL, Not(attributes)))

\* non-boot entry: attributes |= ACTIVE, attributes &= ~ACTIVE
MarkActive(attributes) == Or(attributes, PART_ATT_ACTIVE_VAL)
MarkInactive(attributes) == And(attributes, Not(PART_ATT_ACTIVE_VAL))

\* variant: the unused-type test left out
SetActiveSlotSkips_UnusedToo(partEntry) ==
  LET partSlot == SliceLast2(partEntry.name) IN partSlot # Str_a /\ partSlot # Str_b

\* is the entry one the loop skips (continue)
SetActiveSlotSkips(partEntry) ==
  \/ partEntry.type = TYPE_EFI_UNUSED
  \/ LET partSlot == SliceLast2(partEntry.name) IN partSlot # Str_a /\ partSlot # Str_b

\* variant: every slot-suffixed entry treated as a boot entry
SetActiveSlotAttributes_AllBoot(partEntry, slot) ==
  LET partSlot == SliceLast2(partEntry.name)
      isActive == partSlot = <<"_">> \o slot
  IN IF isActive THEN ActivateBoot(partEntry.attributes)
                 ELSE DeactivateBoot(partEntry.attributes)

\* the attributes the loop body assigns to an entry it does not skip
SetActiveSlotAttributes(partEntry, slot) ==
  LET partSlot == SliceLast2(partEntry.name)
      isActive == partSlot = <<"_">> \o slot
      isBoot == StartsWith(partEntry.name, Str_boot)
  IN IF isBoot
     THEN IF isActive THEN ActivateBoot(partEntry.attributes)
                      ELSE DeactivateBoot(partEntry.attributes)
     ELSE IF isActive THEN MarkActive(partEntry.attributes)
                      ELSE MarkInactive(partEntry.attributes)

\* one iteration of the loop
SetActiveSlotEntry(partEntry, slot) ==
  IF SetActiveSlotSkips(partEntry) THEN partEntry
  ELSE [partEntry EXCEPT !.attributes = SetActiveSlotAttributes(partEntry, slot)]

\* the loop over every entry
SetActiveSlotLoop(entries, slot) ==
  [i \in 1 .. Len(entries) |-> SetActiveSlotEntry(entries[i], slot)]

\* variant: any one-letter slot accepted
ValidSlot_AnyLetter(slot) == Len(slot) = 1

\* the argument check that throws "Invalid slot"
ValidSlot(slot) == ~(slot # Slot_a /\ slot # Slot_b)

----------------------------------------------------------------------------
(* Inputs *)

Name_boot_a == <<"b", "o", "o", "t", "_", "a">>
Name_boot_b == <<"b", "o", "o", "t", "_", "b">>
Name_aop_a == <<"a", "o", "p", "_", "a">>
Name_aop_b == <<"a", "o", "p", "_", "b">>
Name_misc == <<"m", "i", "s", "c">>
Name_bootx_b == <<"b", "o", "o", "t", "x", "_", "b">>

TYPE_USED == "deadbeef-0000-0000-0000-000000000000"

\* [name, type] of the entries a parsed table is made of
EntryKinds ==
  { [name |-> n, type |-> TYPE_USED] :
      n \in {Name_boot_a, Name_boot_b, Name_aop_a, Name_aop_b, Name_misc, Name_bootx_b} }
  \cup { [name |-> Name_boot_a, type |-> TYPE_EFI_UNUSED] }

\* an attributes word from its opaque low bits, its flags byte (bits 48-55)
\* and its opaque high byte (bits 56-63)
Attr(low, flags, high) ==
  Or(Or(BigInt(low), Shl(BigInt(flags), PART_ATT_PRIORITY_BIT)), Shl(BigInt(high), WORD_BITS - 8))

AttrInputs ==
  { Attr(0, 0, 0),
    Attr(7, 135, 17),      \* 0x1187000000000007: priority 3, active, unbootable
    Attr(0, 58, 16),       \* 0x103a000000000000: priority 2, inactive, retry 7
    Attr(4660, 237, 33) }  \* 0x21ed000000001234: priority 1, active, retry 5, successful, unbootable

UniqueGuids ==
  << "00000001-0000-0000-0000-000000000000", "00000002-0000-0000-0000-000000000000",
     "00000003-0000-0000-0000-000000000000", "00000004-0000-0000-0000-000000000000" >>

\* the entry buildGPTData writes at index i - 1
TestEntry(i, kind, attributes) ==
  [ type |-> kind.type,
    unique |-> UniqueGuids[i],
    startingLba |-> 100 + (i - 1) * 100,
    endingLba |-> 199 + (i - 1) * 100,
    attributes |-> attributes,
    name |-> kind.name ]

\* the header buildGPTData writes for numEntries entries; the two stored
\* checksums are int32 values the header bytes carried (parsing keeps them as read)
TestHeader(numEntries) ==
  [ signature |-> SIGNATURE,
    revision |-> 65536,
    headerSize |-> 92,
    headerCrc32 |-> 305419896,
    reserved |-> 0,
    currentLba |-> 1,
    alternateLba |-> 65535,
    firstUsableLba |-> 6,
    lastUsableLba |-> 65534,
    diskGuid |-> [i \in 1 .. 16 |-> 0],
    partEntriesStartLba |-> 2,
    numPartEntries |-> numEntries,
    partEntrySize |-> 128,
    partEntriesCrc32 |-> -19088744 ]

TableInputs ==
  UNION { { [i \in 1 .. n |-> TestEntry(i, kinds[i], attrs[i])] :
              kinds \in [1 .. n -> EntryKinds], attrs \in [1 .. n -> AttrInputs] } :
          n \in 0 .. MaxEntries }

\* the arguments setActiveSlot is called with
SlotInputs == {Slot_a, Slot_b, <<"c">>}

----------------------------------------------------------------------------
(* The state machine: a parsed GPT and the calls made on it *)

NoCall == [op |-> "none", arg |-> NULL, result |-> NULL]

\* the sector size the tests construct a GPT with
SECTOR_SIZE == 4096

\* #header before any parseHeader
Undefined == [undefined |-> TRUE]

\* no GPT object
NoGPT == [header |-> Undefined, partEntries |-> <<>>, sectorSize |-> 0, aliased |-> {}]

\* the alternate after the entries of the original became entries: an entry
\* object the two GPTs share (none, with the clones asAlternate makes) shows
\* the original's writes
AliasedEntries(alt, entries) ==
  IF "partEntries" \in alt.aliased
  THEN [alt EXCEPT !.partEntries =
          [i \in 1 .. Len(alt.partEntries) |-> IF i <= Len(entries) THEN entries[i] ELSE alt.partEntries[i]]]
  ELSE alt

\* a GPT after parseHeader and parsePartEntries (createTestGPT)
Init ==
  \E table \in TableInputs :
    /\ partEntries = table
    /\ header = TestHeader(Len(table))
    /\ orig = table
    /\ pre = [header |-> TestHeader(Len(table)), partEntries |-> table]
    /\ last = NoCall
    /\ prior = [op |-> "none", arg |-> NULL]
    /\ sectorSize = SECTOR_SIZE
    /\ alternate = NoGPT

\* gpt.setActiveSlot(slot)
SetActiveSlot(slot) ==
  /\ pre' = [header |-> header, partEntries |-> partEntries]
  /\ prior' = [op |-> last.op, arg |-> last.arg]
  /\ IF ~ValidSlot(slot)
     THEN /\ last' = [op |-> "setActiveSlot", arg |-> slot, result |-> "Invalid slot"]
          /\ UNCHANGED partEntries
     ELSE /\ last' = [op |-> "setActiveSlot", arg |-> slot, result |-> "ok"]
          /\ partEntries' = SetActiveSlotLoop(partEntries, slot)
  /\ alternate' = AliasedEntries(alternate, partEntries')
  /\ UNCHANGED <<header, orig, sectorSize>>

\* gpt.getActiveSlot()
GetActiveSlot ==
  /\ pre' = [header |-> header, partEntries |-> partEntries]
  /\ prior' = [op |-> last.op, arg |-> last.arg]
  /\ last' = [op |-> "getActiveSlot", arg |-> NULL, result |-> getActiveSlot(partEntries)]
  /\ UNCHANGED <<header, partEntries, orig, sectorSize, alternate>>

Next ==
  \/ \E slot \in SlotInputs : SetActiveSlot(slot)
  \/ GetActiveSlot

Spec == Init /\ [][Next]_vars

----------------------------------------------------------------------------
(* Vocabulary of the properties *)

\* bits 0..47 and 56..63 of an attributes word
OpaqueBits == (0 .. 47) \cup (56 .. 63)
Opaque(attributes) == attributes \cap OpaqueBits

\* the A/B subfields of an attributes word, read bit by bit
PriorityOf(attributes) ==
  (IF 48 \in attributes THEN 1 ELSE 0) + (IF 49 \in attributes THEN 2 ELSE 0)
ActiveOf(attributes) == 50 \in attributes
RetryOf(attributes) ==
  (IF 51 \in attributes THEN 1 ELSE 0) + (IF 52 \in attributes THEN 2 ELSE 0)
    + (IF 53 \in attributes THEN 4 ELSE 0)
SuccessfulOf(attributes) == 54 \in attributes
UnbootableOf(attributes) == 55 \in attributes

EndsWith(s, suffix) ==
  Len(s) >= Len(suffix) /\ \A k \in 1 .. Len(suffix) : s[Len(s) - Len(suffix) + k] = suffix[k]
BeginsWith(s, prefix) ==
  Len(s) >= Len(prefix) /\ \A k \in 1 .. Len(prefix) : s[k] = prefix[k]

NonEmpty(e) == e.type # TYPE_EFI_UNUSED
\* the slot letter of a slot-suffixed name, as a one-character string
SuffixSlot(e) == <<e.name[Len(e.name)]>>
Slotted(e) == EndsWith(e.name, <<"_", "a">>) \/ EndsWith(e.name, <<"_", "b">>)
BootNamed(e) == BeginsWith(e.name, <<"b", "o", "o", "t">>)
\* the entries getActiveSlot looks at
Candidate(e) == NonEmpty(e) /\ BeginsWith(e.name, <<"b", "o", "o", "t", "_">>) /\ Slotted(e)

\* the most recent call was a successful setActiveSlot(s), s "a" or "b"
DidSetActiveSlot == last.op = "setActiveSlot" /\ last.arg \in {<<"a">>, <<"b">>}
DidGetActiveSlot == last.op = "getActiveSlot"
SameShape == Len(partEntries) = Len(pre.partEntries) /\ Len(partEntries) = Len(orig)
Indices == 1 .. Len(partEntries)

----------------------------------------------------------------------------
(* C1 *)

\* C1: for every entry and every call setActiveSlot(s), s in {"a","b"}, bits 0..47
\* and 56..63 of the attributes are the same after the call as before it, and the
\* same as when the table was parsed, after any sequence of setActiveSlot calls.
C1_OpaqueBitsPreserved ==
  /\ SameShape
  /\ \A i \in Indices : Opaque(partEntries[i].attributes) = Opaque(orig[i].attributes)
  /\ DidSetActiveSlot =>
       \A i \in Indices :
         Opaque(partEntries[i].attributes) = Opaque(pre.partEntries[i].attributes)

\* a call rewrote the flags of a boot entry and of a non-boot entry that both
\* carry opaque bits below bit 48 and above bit 55
C1_Witness ==
  /\ DidSetActiveSlot
  /\ \E i, j \in Indices :
       /\ BootNamed(partEntries[i]) /\ ~BootNamed(partEntries[j])
       /\ \A k \in {i, j} :
            /\ partEntries[k].attributes # pre.partEntries[k].attributes
            /\ Opaque(partEntries[k].attributes) \cap (0 .. 47) # {}
            /\ Opaque(partEntries[k].attributes) \cap (56 .. 63) # {}

----------------------------------------------------------------------------
(* C2 *)

\* C2: after setActiveSlot(s), every non-empty entry whose name begins with "boot"
\* and whose suffix matches s has priority 3, active 1, retry count 7, successful 0
\* and unbootable 0, whatever the five subfields held before.
C2_ActiveBootForced ==
  DidSetActiveSlot =>
    \A i \in Indices :
      LET e == partEntries[i] IN
      (NonEmpty(e) /\ BootNamed(e) /\ Slotted(e) /\ SuffixSlot(e) = last.arg) =>
        /\ PriorityOf(e.attributes) = 3
        /\ ActiveOf(e.attributes)
        /\ RetryOf(e.attributes) = 7
        /\ ~SuccessfulOf(e.attributes)
        /\ ~UnbootableOf(e.attributes)

\* an activated boot entry that was inactive, unbootable, successful, with
\* priority and retry count below their maxima
C2_Witness ==
  /\ DidSetActiveSlot
  /\ \E i \in Indices :
       LET e == partEntries[i]
           was == pre.partEntries[i].attributes IN
       /\ NonEmpty(e) /\ BootNamed(e) /\ Slotted(e) /\ SuffixSlot(e) = last.arg
       /\ PriorityOf(was) # 3 /\ RetryOf(was) # 7
       /\ SuccessfulOf(was) /\ UnbootableOf(was)

----------------------------------------------------------------------------
(* C3 *)

\* C3: after setActiveSlot(s), every non-empty entry whose name begins with "boot"
\* and whose slot suffix is the other slot has priority 2 and active 0, and its
\* retry count, successful bit and unbootable bit are what they were before.
C3_InactiveBootDemoted ==
  DidSetActiveSlot =>
    \A i \in Indices :
      LET e == partEntries[i]
          was == pre.partEntries[i].attributes IN
      (NonEmpty(e) /\ BootNamed(e) /\ Slotted(e) /\ SuffixSlot(e) # last.arg) =>
        /\ PriorityOf(e.attributes) = 2
        /\ ~ActiveOf(e.attributes)
        /\ RetryOf(e.attributes) = RetryOf(was)
        /\ SuccessfulOf(e.attributes) = SuccessfulOf(was)
        /\ UnbootableOf(e.attributes) = UnbootableOf(was)

\* a demoted boot entry that was active with another priority and carries a
\* retry count, the successful bit and the unbootable bit
C3_Witness ==
  /\ DidSetActiveSlot
  /\ \E i \in Indices :
       LET e == partEntries[i]
           was == pre.partEntries[i].attributes IN
       /\ NonEmpty(e) /\ BootNamed(e) /\ Slotted(e) /\ SuffixSlot(e) # last.arg
       /\ ActiveOf(was) /\ PriorityOf(was) # 2
       /\ RetryOf(was) \notin {0, 7} /\ SuccessfulOf(was) /\ UnbootableOf(was)

----------------------------------------------------------------------------
(* C4 *)

\* C4: for every non-empty slot-suffixed entry whose name does not begin with
\* "boot", setActiveSlot(s) changes at most bit 50: it becomes 1 if the suffix
\* matches s and 0 otherwise, and the other 63 bits are unchanged.
C4_NonBootOnlyActiveBit ==
  DidSetActiveSlot =>
    \A i \in Indices :
      LET e == partEntries[i]
          was == pre.partEntries[i].attributes IN
      (NonEmpty(e) /\ Slotted(e) /\ ~BootNamed(e)) =>
        /\ e.attributes \ {50} = was \ {50}
        /\ (50 \in e.attributes) <=> (SuffixSlot(e) = last.arg)

\* a non-boot slotted entry whose active bit a call cleared while it carries a
\* priority, a retry count, the successful bit and the unbootable bit
C4_Witness ==
  /\ DidSetActiveSlot
  /\ \E i \in Indices :
       LET e == partEntries[i]
           was == pre.partEntries[i].attributes IN
       /\ NonEmpty(e) /\ Slotted(e) /\ ~BootNamed(e)
       /\ SuffixSlot(e) # last.arg /\ ActiveOf(was) /\ ~ActiveOf(e.attributes)
       /\ PriorityOf(was) # 0 /\ RetryOf(was) # 0 /\ SuccessfulOf(was) /\ UnbootableOf(was)

----------------------------------------------------------------------------
(* C5 *)

\* C5: idempotence: when setActiveSlot(s) is called twice in succession with the
\* same s, every entry after the second call is identical to what it was after
\* the first call, opaque bits included.
C5_Idempotent ==
  (DidSetActiveSlot /\ prior.op = "setActiveSlot" /\ prior.arg = last.arg) =>
    partEntries = pre.partEntries

\* the second of two equal calls, on a table whose boot and non-boot entries the
\* first call rewrote
C5_Witness ==
  /\ DidSetActiveSlot /\ prior.op = "setActiveSlot" /\ prior.arg = last.arg
  /\ \E i, j \in Indices :
       /\ BootNamed(partEntries[i]) /\ ~BootNamed(partEntries[j])
       /\ partEntries[i].attributes # orig[i].attributes
       /\ partEntries[j].attributes # orig[j].attributes
       /\ Opaque(partEntries[i].attributes) # {}

----------------------------------------------------------------------------
(* C6 *)

HasEntryNamed(name) ==
  \E i \in Indices : NonEmpty(partEntries[i]) /\ partEntries[i].name = name

HasBootPair ==
  /\ HasEntryNamed(<<"b", "o", "o", "t", "_", "a">>)
  /\ HasEntryNamed(<<"b", "o", "o", "t", "_", "b">>)

\* C6: slot round trip: from any attribute state and after any earlier calls, if
\* the table has a non-empty boot_a/boot_b pair then getActiveSlot() right after
\* setActiveSlot("a") returns "a", and right after setActiveSlot("b") returns "b".
C6_SlotRoundTrip ==
  (DidGetActiveSlot /\ prior.op = "setActiveSlot" /\ prior.arg \in {<<"a">>, <<"b">>}
     /\ HasBootPair) =>
    last.result = prior.arg

\* the round trip returned the slot just set on a table whose boot entry of the
\* other slot was parsed active with the top priority
C6_Witness ==
  /\ DidGetActiveSlot /\ prior.op = "setActiveSlot" /\ prior.arg \in {<<"a">>, <<"b">>}
  /\ HasBootPair
  /\ last.result = prior.arg
  /\ \E i \in Indices :
       /\ Candidate(orig[i]) /\ SuffixSlot(orig[i]) # prior.arg
       /\ ActiveOf(orig[i].attributes) /\ PriorityOf(orig[i].attributes) = 3
  /\ \A i \in Indices :
       (Candidate(orig[i]) /\ SuffixSlot(orig[i]) = prior.arg) => ~ActiveOf(orig[i].attributes)

----------------------------------------------------------------------------
(* C7 *)

\* C7: setActiveSlot(slot) with a slot other than "a" or "b" fails with the
\* invalid-slot error and leaves every entry and the header unmodified.
C7_InvalidSlotRejected ==
  (last.op = "setActiveSlot" /\ last.arg \notin {<<"a">>, <<"b">>}) =>
    /\ last.result = "Invalid slot"
    /\ partEntries = pre.partEntries
    /\ header = pre.header

\* a rejected call on a table that holds slot-suffixed entries with active bits set
C7_Witness ==
  /\ last.op = "setActiveSlot" /\ last.arg = <<"c">>
  /\ last.result = "Invalid slot"
  /\ \E i, j \in Indices :
       /\ i # j
       /\ NonEmpty(partEntries[i]) /\ Slotted(partEntries[i]) /\ BootNamed(partEntries[i])
       /\ NonEmpty(partEntries[j]) /\ Slotted(partEntries[j]) /\ ~BootNamed(partEntries[j])
       /\ ActiveOf(partEntries[i].attributes) /\ ActiveOf(partEntries[j].attributes)

----------------------------------------------------------------------------
(* C8 *)

ActiveCandidates == {i \in Indices : Candidate(partEntries[i]) /\ ActiveOf(partEntries[i].attributes)}

\* the first entry, in stored order, of the greatest priority among the active candidates
FirstGreatest ==
  CHOOSE i \in ActiveCandidates :
    /\ \A j \in ActiveCandidates :
         PriorityOf(partEntries[j].attributes) <= PriorityOf(partEntries[i].attributes)
    /\ \A j \in ActiveCandidates :
         PriorityOf(partEntries[j].attributes) = PriorityOf(partEntries[i].attributes) => i <= j

\* the entries with every attribute bit but priority and active cleared
OnlyPriorityAndActive ==
  [i \in Indices |-> [partEntries[i] EXCEPT !.attributes = @ \cap {48, 49, 50}]]

\* C8: getActiveSlot() returns the slot of the first entry, in stored order, that
\* has the greatest priority among the candidate entries with the active bit set
\* (a later entry of equal priority never replaces an earlier one); the
\* unbootable, successful, retry-count and opaque bits never change the result.
C8_FirstGreatestPriority ==
  DidGetActiveSlot =>
    /\ ActiveCandidates # {} => last.result = SuffixSlot(partEntries[FirstGreatest])
    /\ last.result = getActiveSlot(OnlyPriorityAndActive)

\* two active candidates of equal priority and different slots, the first of them
\* unbootable: the first one's slot was returned
C8_Witness ==
  /\ DidGetActiveSlot
  /\ \E i, j \in ActiveCandidates :
       /\ i < j
       /\ PriorityOf(partEntries[i].attributes) = PriorityOf(partEntries[j].attributes)
       /\ SuffixSlot(partEntries[i]) # SuffixSlot(partEntries[j])
       /\ UnbootableOf(partEntries[i].attributes)
       /\ Opaque(partEntries[i].attributes) # {}
       /\ last.result = SuffixSlot(partEntries[i])

----------------------------------------------------------------------------
(* C9 *)

\* C9: getActiveSlot() considers only non-empty entries whose name begins with
\* "boot_" and ends with "_a" or "_b": it returns null whenever none of them has
\* the active bit set, whatever the attributes of the other entries, and a slot
\* it returns is the slot of one of them that has the active bit set.
C9_OnlyBootCandidates ==
  DidGetActiveSlot =>
    /\ ActiveCandidates = {} => last.result = NULL
    /\ last.result # NULL =>
         \E i \in ActiveCandidates : SuffixSlot(partEntries[i]) = last.result

\* null was returned although an entry that is no candidate is active with the
\* top priority and a candidate is present but inactive
C9_Witness ==
  /\ DidGetActiveSlot /\ last.result = NULL
  /\ \E i, j \in Indices :
       /\ ~Candidate(partEntries[i]) /\ Slotted(partEntries[i])
       /\ ActiveOf(partEntries[i].attributes) /\ PriorityOf(partEntries[i].attributes) = 3
       /\ Candidate(partEntries[j]) /\ ~ActiveOf(partEntries[j].attributes)

----------------------------------------------------------------------------
(* C10 *)

\* C10: setActiveSlot(s) modifies only the attributes of non-empty entries whose
\* name ends in "_a" or "_b": unused entries, entries without a slot suffix, every
\* entry's type, unique id, LBAs and name, and all header fields are unchanged.
C10_OnlySlottedAttributes ==
  last.op = "setActiveSlot" =>
    /\ header = pre.header
    /\ Len(partEntries) = Len(pre.partEntries)
    /\ \A i \in Indices :
         LET e == partEntries[i]
             was == pre.partEntries[i] IN
         /\ [e EXCEPT !.attributes = was.attributes] = was
         /\ (~NonEmpty(was) \/ ~Slotted(was)) => e.attributes = was.attributes

\* a call rewrote one entry and left alone an unused or unsuffixed entry whose
\* active bit is the opposite of what the call gives the entries it touches
C10_Witness ==
  /\ DidSetActiveSlot
  /\ \E i, j \in Indices :
       /\ partEntries[i].attributes # pre.partEntries[i].attributes
       /\ ~NonEmpty(partEntries[j]) \/ ~Slotted(partEntries[j])
       /\ ActiveOf(partEntries[j].attributes)
            # (Slotted(partEntries[j]) /\ SuffixSlot(partEntries[j]) = last.arg)

----------------------------------------------------------------------------
(* Byte buffers (Uint8Array): sequences of numbers 0..255 *)

Zeros(n) == [i \in 1 .. n |-> 0]

\* data.slice(from, to), offsets from 0, to exclusive, clamped to the length
Slice(data, from, to) ==
  LET end == IF to < Len(data) THEN to ELSE Len(data)
  IN IF from >= end THEN <<>> ELSE SubSeq(data, from + 1, end)

\* array.set(bytes, offset)
SetAt(array, bytes, offset) ==
  [i \in 1 .. Len(array) |->
     IF i > offset /\ i <= offset + Len(bytes) THEN bytes[i - offset] ELSE array[i]]

----------------------------------------------------------------------------
(* crc32 (crc-32 buf): CRC-32, reflected polynomial 0xEDB88320, as a signed int32 *)

\* a ^ b on numbers below 16, and on bytes
RECURSIVE XorBits(_, _, _)
XorBits(a, b, n) ==
  IF n = 0 THEN 0
  ELSE ((a + b) % 2) + 2 * XorBits(a \div 2, b \div 2, n - 1)

XorNibble == [a \in 0 .. 15 |-> [b \in 0 .. 15 |-> XorBits(a, b, 4)]]

XorByte ==
  [a \in 0 .. 255 |-> [b \in 0 .. 255 |->
     16 * XorNibble[a \div 16][b \div 16] + XorNibble[a % 16][b % 16]]]

Xor8(a, b) == XorByte[a][b]

\* a 32-bit word as its four bytes, least significant first
Xor32(v, w) == <<Xor8(v[1], w[1]), Xor8(v[2], w[2]), Xor8(v[3], w[3]), Xor8(v[4], w[4])>>

ShiftRight1(v) ==
  << (v[1] \div 2) + 128 * (v[2] % 2), (v[2] \div 2) + 128 * (v[3] % 2),
     (v[3] \div 2) + 128 * (v[4] % 2), v[4] \div 2 >>

CRC_POLY == <<32, 131, 184, 237>>

RECURSIVE CrcTableEntry(_, _)
CrcTableEntry(v, k) ==
  IF k = 0 THEN v
  ELSE CrcTableEntry(IF v[1] % 2 = 1 THEN Xor32(ShiftRight1(v), CRC_POLY) ELSE ShiftRight1(v),
                     k - 1)

CRC_TABLE == [i \in 0 .. 255 |-> CrcTableEntry(<<i, 0, 0, 0>>, 8)]

\* one byte into the register: crc = T[(crc ^ b) & 0xFF] ^ (crc >>> 8)
CrcStep(c, b) ==
  LET t == CRC_TABLE[Xor8(c[1], b)]
  IN <<Xor8(t[1], c[2]), Xor8(t[2], c[3]), Xor8(t[3], c[4]), t[4]>>

\* the register c after the bytes buf[lo..hi], lo <= hi, taken in order; the
\* range is halved so that the evaluation nests only log2(hi - lo) deep, and the
\* register after the first half is a value before the second half starts
RECURSIVE CrcRange(_, _, _, _)
CrcRange(c, buf, lo, hi) ==
  IF lo = hi THEN CrcStep(c, buf[lo])
  ELSE LET mid == (lo + hi) \div 2
       IN CHOOSE r \in { CrcRange(m, buf, mid + 1, hi) : m \in { CrcRange(c, buf, lo, mid) } } : TRUE

\* the register after all of buf
CrcRegister(buf) ==
  IF Len(buf) = 0 THEN <<255, 255, 255, 255>>
  ELSE CrcRange(<<255, 255, 255, 255>>, buf, 1, Len(buf))

\* four little-endian bytes as a signed 32-bit number (getInt32) and back (setInt32)
Int32FromBytes(b) ==
  b[1] + 256 * b[2] + 65536 * b[3] + 16777216 * (IF b[4] >= 128 THEN b[4] - 256 ELSE b[4])

Int32ToBytes(v) ==
  << v % 256, (v \div 256) % 256, (v \div 65536) % 256, (v \div 16777216) % 256 >>

crc32(buf) ==
  LET c == CrcRegister(buf)
  IN Int32FromBytes(<<255 - c[1], 255 - c[2], 255 - c[3], 255 - c[4]>>)

----------------------------------------------------------------------------
(* The field codecs of the struct schemas (tiny-struct, gpt-structs) *)

\* the characters of the codes 32..126 (code 96 by its number)
ASCII ==
  << " ", "!", "\"", "#", "$", "%", "&", "'", "(", ")", "*", "+", ",", "-", ".", "/",
     "0", "1", "2", "3", "4", "5", "6", "7", "8", "9", ":", ";", "<", "=", ">", "?",
     "@", "A", "B", "C", "D", "E", "F", "G", "H", "I", "J", "K", "L", "M", "N", "O",
     "P", "Q", "R", "S", "T", "U", "V", "W", "X", "Y", "Z", "[", "\\", "]", "^", "_",
     "\\u96", "a", "b", "c", "d", "e", "f", "g", "h", "i", "j", "k", "l", "m", "n", "o",
     "p", "q", "r", "s", "t", "u", "v", "w", "x", "y", "z", "{", "|", "}", "~" >>

\* String.fromCharCode(code): the character of a code unit
FromCharCode(code) ==
  IF code >= 32 /\ code <= 126 THEN ASCII[code - 31] ELSE "\\u" \o ToString(code)

\* ch.charCodeAt(0)
CharCodeAt(ch) == CHOOSE code \in 32 .. 126 : ASCII[code - 31] = ch

\* uint32(): DataView.getUint32 / setUint32 at a byte offset, little-endian
Uint32At(data, offset) ==
  data[offset + 1] + 256 * data[offset + 2] + 65536 * data[offset + 3] + 16777216 * data[offset + 4]

Uint32ToBytes(v) ==
  << v % 256, (v \div 256) % 256, (v \div 65536) % 256, (v \div 16777216) % 256 >>

\* int32(): DataView.getInt32 at a byte offset, little-endian
Int32At(data, offset) == Int32FromBytes(SubSeq(data, offset + 1, offset + 4))

\* uint64() of a header field: DataView.getBigUint64 / setBigUint64, little-endian;
\* the LBAs of the model stay below 2^31, and setBigUint64 wraps a negative BigInt
Uint64At(data, offset) ==
  LET lo == Uint32At(data, offset)
      hi == Uint32At(data, offset + 4)
  IN IF hi = 0 THEN lo ELSE lo + hi * Pow2(32)

Uint64ToBytes(v) ==
  Uint32ToBytes(v) \o (IF v < 0 THEN <<255, 255, 255, 255>> ELSE <<0, 0, 0, 0>>)

\* uint64() of the attributes field, as a word
WordAt(data, offset) ==
  { 8 * i + k : i \in 0 .. 7, k \in 0 .. 7 } \cap
  { p \in 0 .. WORD_BITS - 1 : (data[offset + (p \div 8) + 1] \div Pow2(p % 8)) % 2 = 1 }

WordToBytes(w) ==
  [i \in 1 .. 8 |-> Number({ p - 8 * (i - 1) : p \in { q \in w : q \div 8 = i - 1 } })]

\* string(n): one character per byte
StringAt(data, offset, n) == [i \in 1 .. n |-> FromCharCode(data[offset + i])]

StringToBytes(str, n) == [i \in 1 .. n |-> IF i <= Len(str) THEN CharCodeAt(str[i]) ELSE 0]

\* utf16cstring(n): n little-endian code units, the string ends before the
\* first zero code unit
CodeUnitAt(data, offset, i) == data[offset + 2 * i - 1] + 256 * data[offset + 2 * i]

Utf16cstringAt(data, offset, n) ==
  LET zeros == { i \in 1 .. n : CodeUnitAt(data, offset, i) = 0 }
      len == IF zeros = {} THEN n ELSE (CHOOSE i \in zeros : \A j \in zeros : i <= j) - 1
  IN [i \in 1 .. len |-> FromCharCode(CodeUnitAt(data, offset, i))]

Utf16cstringToBytes(str, n) ==
  [i \in 1 .. 2 * n |->
     LET unit == (i + 1) \div 2
     IN IF unit <= Len(str) /\ i % 2 = 1 THEN CharCodeAt(str[unit]) ELSE 0]

\* guid(): the first three groups little-endian, the last eight bytes in
\* order, rendered as lowercase hexadecimal with dashes
HEX == <<"0", "1", "2", "3", "4", "5", "6", "7", "8", "9", "a", "b", "c", "d", "e", "f">>

Hex2(b) == HEX[(b \div 16) + 1] \o HEX[(b % 16) + 1]

GuidAt(data, offset) ==
  LET b(i) == Hex2(data[offset + i])
  IN b(4) \o b(3) \o b(2) \o b(1) \o "-" \o b(6) \o b(5) \o "-" \o b(8) \o b(7) \o "-"
     \o b(9) \o b(10) \o "-" \o b(11) \o b(12) \o b(13) \o b(14) \o b(15) \o b(16)

\* the sixteen bytes of the identifiers the model's tables carry
GuidBytes ==
  { Zeros(16), <<239, 190, 173, 222>> \o Zeros(12) } \cup { <<i>> \o Zeros(15) : i \in 1 .. 4 }

\* the inverse of the rendering
GuidToBytes(text) == CHOOSE b \in GuidBytes : GuidAt(b, 0) = text

----------------------------------------------------------------------------
(* The two schemas: GPTHeader and GPTPartitionEntry views and their bytes *)

\* the bytes the GPTHeader fields cover
HEADER_BYTES == 92

\* the bytes the GPTPartitionEntry fields cover
ENTRY_BYTES == 128

\* the code units of an entry name
NAME_UNITS == 36

\* GPTHeader.from(data)
HeaderFrom(data) ==
  [ signature |-> StringAt(data, 0, 8),
    revision |-> Uint32At(data, 8),
    headerSize |-> Uint32At(data, 12),
    headerCrc32 |-> Int32At(data, 16),
    reserved |-> Uint32At(data, 20),
    currentLba |-> Uint64At(data, 24),
    alternateLba |-> Uint64At(data, 32),
    firstUsableLba |-> Uint64At(data, 40),
    lastUsableLba |-> Uint64At(data, 48),
    diskGuid |-> SubSeq(data, 57, 72),
    partEntriesStartLba |-> Uint64At(data, 72),
    numPartEntries |-> Uint32At(data, 80),
    partEntrySize |-> Uint32At(data, 84),
    partEntriesCrc32 |-> Int32At(data, 88) ]

\* header.$toBuffer()
HeaderToBuffer(hdr) ==
  StringToBytes(hdr.signature, 8) \o Uint32ToBytes(hdr.revision) \o Uint32ToBytes(hdr.headerSize)
  \o Int32ToBytes(hdr.headerCrc32) \o Uint32ToBytes(hdr.reserved)
  \o Uint64ToBytes(hdr.currentLba) \o Uint64ToBytes(hdr.alternateLba)
  \o Uint64ToBytes(hdr.firstUsableLba) \o Uint64ToBytes(hdr.lastUsableLba)
  \o hdr.diskGuid \o Uint64ToBytes(hdr.partEntriesStartLba)
  \o Uint32ToBytes(hdr.numPartEntries) \o Uint32ToBytes(hdr.partEntrySize)
  \o Int32ToBytes(hdr.partEntriesCrc32)

\* GPTPartitionEntry.from(data)
EntryFrom(data) ==
  [ type |-> GuidAt(data, 0),
    unique |-> GuidAt(data, 16),
    startingLba |-> Uint64At(data, 32),
    endingLba |-> Uint64At(data, 40),
    attributes |-> WordAt(data, 48),
    name |-> Utf16cstringAt(data, 56, NAME_UNITS) ]

\* variant: the attributes field encoded as zero
EntryToBuffer_AttributesLost(entry) ==
  GuidToBytes(entry.type) \o GuidToBytes(entry.unique)
  \o Uint64ToBytes(entry.startingLba) \o Uint64ToBytes(entry.endingLba)
  \o Zeros(8) \o Utf16cstringToBytes(entry.name, NAME_UNITS)

\* partEntry.$toBuffer()
EntryToBuffer(entry) ==
  GuidToBytes(entry.type) \o GuidToBytes(entry.unique)
  \o Uint64ToBytes(entry.startingLba) \o Uint64ToBytes(entry.endingLba)
  \o WordToBytes(entry.attributes) \o Utf16cstringToBytes(entry.name, NAME_UNITS)

\* view.$clone(): a view of its own with the same field values; the mark
\* tells whether the result is the very object that was cloned
Clone(view) == [view |-> view, same |-> FALSE]

----------------------------------------------------------------------------
(* The operations of a GPT on its header, its entries and its sector size *)

\* what a call gives back: null, or a thrown error
ReturnsNull == [value |-> "null"]
Throws(error, message) == [throws |-> error, message |-> message]
Threw(result) == "throws" \in DOMAIN result

\* a log line of the "gpt" logger
Logged(level, about) == [level |-> level, about |-> about]

\* Math.ceil(a / b) of two positive numbers
Ceil_Floor(a, b) == a \div b
Ceil(a, b) == (a + b - 1) \div b

\* get partEntriesSectors
partEntriesSectors(hdr, ss) == Ceil(hdr.numPartEntries * hdr.partEntrySize, ss)

\* the checksum of the encoded header with its checksum field zeroed
HeaderChecksum_FieldKept(hdr) == crc32(HeaderToBuffer(hdr))
HeaderChecksum(hdr) == crc32(HeaderToBuffer([hdr EXCEPT !.headerCrc32 = 0]))

\* this.#header.headerCrc32 = expectedHeaderCrc32, after the field was zeroed
\* for the checksum
RestoreChecksum_Zero(hdr, expectedHeaderCrc32) == [hdr EXCEPT !.headerCrc32 = 0]
RestoreChecksum(hdr, expectedHeaderCrc32) == [hdr EXCEPT !.headerCrc32 = expectedHeaderCrc32]

\* the size check of parseHeader
InvalidHeaderSize_MinOnly(hdr, ss) == hdr.headerSize < HEADER_BYTES
InvalidHeaderSize(hdr, ss) == hdr.headerSize < HEADER_BYTES \/ hdr.headerSize > ss

\* parseHeader(data, actualLba) on a GPT of sector size ss: the header it
\* stores, what it returns and what it logs
parseHeader(data, actualLba, ss) ==
  LET hdr == HeaderFrom(Slice(data, 0, Len(data)))
  IN IF hdr.signature # SIGNATURE
     THEN [header |-> hdr, result |-> ReturnsNull, log |-> <<Logged("error", "signature")>>]
     ELSE IF hdr.revision # 65536
     THEN [header |-> hdr, result |-> ReturnsNull, log |-> <<Logged("error", "revision")>>]
     ELSE IF InvalidHeaderSize(hdr, ss)
     THEN [header |-> hdr, result |-> ReturnsNull, log |-> <<Logged("error", "headerSize")>>]
     ELSE LET expectedHeaderCrc32 == hdr.headerCrc32
              actualHeaderCrc32 == HeaderChecksum(hdr)
              restored == RestoreChecksum(hdr, expectedHeaderCrc32)
              mismatchCrc32 == restored.headerCrc32 # actualHeaderCrc32
          IN [ header |-> restored,
               result |-> [headerCrc32 |-> restored.headerCrc32, mismatchCrc32 |-> mismatchCrc32],
               log |-> (IF hdr.currentLba # actualLba THEN <<Logged("warn", "currentLba")>> ELSE <<>>)
                       \o (IF mismatchCrc32 THEN <<Logged("warn", "headerCrc32")>> ELSE <<>>) ]

\* buildPartEntries() reads #partEntries[i] for every i below numPartEntries
\* and sets its bytes at i * partEntrySize inside the array
CanBuildPartEntries(hdr, entries) ==
  /\ hdr.numPartEntries <= Len(entries)
  /\ hdr.numPartEntries > 0 => hdr.partEntrySize >= ENTRY_BYTES

RECURSIVE BuildPartEntriesLoop(_, _, _, _)
BuildPartEntriesLoop(array, hdr, entries, n) ==
  IF n = 0 THEN array
  ELSE SetAt(BuildPartEntriesLoop(array, hdr, entries, n - 1),
             EntryToBuffer(entries[n]), (n - 1) * hdr.partEntrySize)

buildPartEntries(hdr, entries) ==
  BuildPartEntriesLoop(Zeros(hdr.numPartEntries * hdr.partEntrySize), hdr, entries, hdr.numPartEntries)

\* the loop of parsePartEntries: the entries after the pushes
ParsePartEntriesLoop(hdr, entries, data) ==
  entries \o [i \in 1 .. hdr.numPartEntries |->
                EntryFrom(Slice(data, (i - 1) * hdr.partEntrySize, i * hdr.partEntrySize))]

\* the bytes parsePartEntries checksums
ParsedBytes_Raw(hdr, entries, data) == data
ParsedBytes(hdr, entries, data) == buildPartEntries(hdr, entries)

\* parsePartEntries(data): the entries it stores, what it returns and logs
parsePartEntries(hdr, entries, data) ==
  LET pushed == ParsePartEntriesLoop(hdr, entries, data)
      mismatchCrc32 == hdr.partEntriesCrc32 # crc32(ParsedBytes(hdr, pushed, data))
  IN [ partEntries |-> pushed,
       result |-> [partEntriesCrc32 |-> hdr.partEntriesCrc32, mismatchCrc32 |-> mismatchCrc32],
       log |-> IF mismatchCrc32 THEN <<Logged("warn", "partEntriesCrc32")>> ELSE <<>> ]

\* the optional argument of buildHeader
Omitted == [given |-> FALSE, bytes |-> <<>>]
Given(bytes) == [given |-> TRUE, bytes |-> bytes]

\* the check buildHeader makes on a checksum it has just stored
ZeroChecksum_Never(crc) == FALSE
ZeroChecksum(crc) == crc = 0

\* the header after its checksum field is zeroed and then set to the checksum
\* of the encoded header
BuiltHeader_FieldKept(stored) == [stored EXCEPT !.headerCrc32 = crc32(HeaderToBuffer(stored))]
BuiltHeader(stored) ==
  LET zeroed == [stored EXCEPT !.headerCrc32 = 0]
  IN [zeroed EXCEPT !.headerCrc32 = crc32(HeaderToBuffer(zeroed))]

\* buildHeader(partEntries?): the header as the call leaves it and the bytes
\* it returns or the error it throws; buildPartEntries throws before any store
buildHeader(hdr, entries, arg) ==
  IF ~arg.given /\ ~CanBuildPartEntries(hdr, entries)
  THEN [header |-> hdr, result |-> Throws("TypeError", "buildPartEntries")]
  ELSE LET stored == [hdr EXCEPT !.partEntriesCrc32 =
                        crc32(IF arg.given THEN arg.bytes ELSE buildPartEntries(hdr, entries))]
       IN IF ZeroChecksum(stored.partEntriesCrc32)
          THEN [header |-> stored, result |-> Throws("Error", "partEntriesCrc32 is zero")]
          ELSE LET built == BuiltHeader(stored)
               IN IF ZeroChecksum(built.headerCrc32)
                  THEN [header |-> built, result |-> Throws("Error", "headerCrc32 is zero")]
                  ELSE [header |-> built, result |-> [bytes |-> HeaderToBuffer(built)]]

\* this.#partEntries.map((partEntry) => partEntry.$clone())
CloneEntries_Reversed(entries) ==
  [i \in 1 .. Len(entries) |-> Clone(entries[Len(entries) + 1 - i])]
CloneEntries_Shared(entries) ==
  [i \in 1 .. Len(entries) |-> [view |-> entries[i], same |-> TRUE]]
CloneEntries(entries) == [i \in 1 .. Len(entries) |-> Clone(entries[i])]

\* asAlternate(): the GPT it returns, and the header and entries of the GPT
\* it was called on as the three stores to the cloned header leave them
asAlternate(hdr, entries, ss) ==
  LET clone == Clone(hdr)
      alt1 == [clone.view EXCEPT !.currentLba = hdr.alternateLba]
      own1 == IF clone.same THEN alt1 ELSE hdr
      alt2 == [alt1 EXCEPT !.alternateLba = own1.currentLba]
      own2 == IF clone.same THEN alt2 ELSE own1
      alt3 == [alt2 EXCEPT !.partEntriesStartLba = own2.alternateLba - partEntriesSectors(own2, ss)]
      own3 == IF clone.same THEN alt3 ELSE own2
      clones == CloneEntries(entries)
  IN [ header |-> own3,
       gpt |-> [ header |-> alt3,
                 partEntries |-> [i \in 1 .. Len(entries) |-> clones[i].view],
                 sectorSize |-> ss,
                 aliased |-> (IF clone.same THEN {"header"} ELSE {})
                             \cup (IF \E i \in 1 .. Len(entries) : clones[i].same
                                   THEN {"partEntries"} ELSE {}) ] ]

\* `0x${attributes.toString(16).padStart(16, "0")}`
AttributesText(w) ==
  LET b == WordToBytes(w)
  IN "0x" \o Hex2(b[8]) \o Hex2(b[7]) \o Hex2(b[6]) \o Hex2(b[5])
     \o Hex2(b[4]) \o Hex2(b[3]) \o Hex2(b[2]) \o Hex2(b[1])

\* the filter and the map of getPartitions
IsUsed_All(entry) == TRUE
IsUsed(entry) == entry.type # TYPE_EFI_UNUSED

Partition(entry) ==
  [ type |-> entry.type,
    uuid |-> entry.unique,
    start |-> entry.startingLba,
    end |-> entry.endingLba,
    sectors |-> entry.endingLba - entry.startingLba + 1,
    attributes |-> AttributesText(entry.attributes),
    name |-> entry.name ]

getPartitions(entries) ==
  LET used == SelectSeq(entries, IsUsed)
  IN [i \in 1 .. Len(used) |-> Partition(used[i])]

----------------------------------------------------------------------------
(* The buffers a GPT is given to parse *)

\* the longest entry array a header of the model declares
MaxParsed == 3

\* the most entries a GPT of the model holds
MaxStored == 3

\* the partitions buildGPTData is given: a boot pair with an unused entry
\* between, then the same kinds again
DiskEntry(i) ==
  LET k == (i - 1) % 4
  IN TestEntry(k + 1,
       IF k = 0 THEN [name |-> Name_boot_a, type |-> TYPE_USED]
       ELSE IF k = 1 THEN [name |-> Name_boot_a, type |-> TYPE_EFI_UNUSED]
       ELSE IF k = 2 THEN [name |-> Name_boot_b, type |-> TYPE_USED]
       ELSE [name |-> Name_aop_a, type |-> TYPE_USED],
       IF k = 0 THEN Attr(0, 58, 16)
       ELSE IF k = 2 THEN Attr(4660, 237, 33)
       ELSE Attr(0, 0, 0))

DiskTable(n) == [i \in 1 .. n |-> DiskEntry(i)]

\* buildGPTData(partitions).entries
TestEntriesData(table) ==
  buildPartEntries([numPartEntries |-> Len(table), partEntrySize |-> ENTRY_BYTES], table)

\* the header view buildGPTData encodes: the entries checksum, then the
\* header checksum over the 92 bytes with the field zero
TestHeaderView(table) ==
  LET hdr == [TestHeader(Len(table)) EXCEPT !.partEntriesCrc32 = crc32(TestEntriesData(table)),
                                            !.headerCrc32 = 0]
  IN [hdr EXCEPT !.headerCrc32 = crc32(SubSeq(HeaderToBuffer(hdr), 1, HEADER_BYTES))]

\* buildGPTData(partitions).header, as many bytes of the sector as are read
\* and four more
TestHeaderData(hdr) == HeaderToBuffer(hdr) \o Zeros(4)

\* the tables the model parses: none, one entry, the longest
DiskTables == { DiskTable(n) : n \in {0, 1, MaxParsed} }

\* a header whose entries checksum is that of another entry
OtherEntryHeader ==
  TestHeaderView(<<TestEntry(1, [name |-> Name_boot_a, type |-> TYPE_USED], Attr(7, 135, 17))>>)

\* the header of the table of one entry with a disk identifier that makes
\* the checksum of the encoded header zero
ZeroChecksumHeader ==
  [TestHeaderView(DiskTable(1)) EXCEPT !.diskGuid = <<228, 70, 202, 51>> \o Zeros(12)]

\* the header sector of the table of one entry as a writer makes it that
\* declares a header four bytes longer than the 92 of the schema: the stored
\* checksum is that of the declared bytes with bytes 16..19 zero
WideHeaderData ==
  LET hdr == [TestHeaderView(DiskTable(1)) EXCEPT !.headerSize = HEADER_BYTES + 4, !.headerCrc32 = 0]
      data == TestHeaderData(hdr)
  IN SetAt(data, Int32ToBytes(crc32(SubSeq(data, 1, hdr.headerSize))), 16)

\* header sectors: the one buildGPTData makes for each table, and for the
\* table of one entry the ones with a field overwritten
HeaderInputs ==
  { TestHeaderData(TestHeaderView(table)) : table \in DiskTables }
  \cup
  ( LET hdr == TestHeaderView(DiskTable(1))
    IN { TestHeaderData([hdr EXCEPT !.signature = <<"E", "F", "I", " ", "P", "A", "R", "U">>]),
         TestHeaderData([hdr EXCEPT !.revision = 65537]),
         TestHeaderData([hdr EXCEPT !.headerSize = HEADER_BYTES - 1]),
         TestHeaderData([hdr EXCEPT !.headerSize = SECTOR_SIZE + 1]),
         TestHeaderData([hdr EXCEPT !.headerCrc32 = hdr.headerCrc32 + 1]),
         TestHeaderData(OtherEntryHeader),
         TestHeaderData(ZeroChecksumHeader),
         WideHeaderData } )

\* the LBA a header sector was read from: 1 as the headers say, and 2 for
\* the header of the table of one entry
ActualLbaInputs(data) ==
  IF data = TestHeaderData(TestHeaderView(DiskTable(1))) THEN {1, 2} ELSE {1}

\* entry arrays: the one buildGPTData makes for each table with entries, and
\* the array of one entry followed by bytes that belong to no entry
EntriesInputs ==
  { TestEntriesData(table) : table \in DiskTables \ {<<>>} }
  \cup { TestEntriesData(DiskTable(1)) \o <<170, 85, 170, 85>> }

\* the sector sizes a GPT is constructed with
SectorSizeInputs == {SECTOR_SIZE}

\* the arguments buildHeader is called with
BuildHeaderInputs == {Omitted, Given(<<49, 50, 51, 52, 53, 54, 55, 56, 57>>)}

\* the slots the original and its alternate are switched to
AlternateSlotInputs == {Slot_a, Slot_b}

----------------------------------------------------------------------------
(* The life of a GPT: constructed, parsed, changed, rebuilt, mirrored *)

\* what a call other than a slot call records: the state it began in
Called ==
  /\ pre' = [header |-> header, partEntries |-> partEntries]
  /\ UNCHANGED prior

\* the alternate after the original's header became hdr: a header object the
\* two GPTs share (none, with the clone asAlternate makes) shows the writes
AliasedHeader(alt, hdr) ==
  IF "header" \in alt.aliased THEN [alt EXCEPT !.header = hdr] ELSE alt

\* new GPT(sectorSize)
Constructed ==
  /\ header = Undefined
  /\ partEntries = <<>>
  /\ sectorSize \in SectorSizeInputs
  /\ alternate = NoGPT
  /\ orig = <<>>
  /\ pre = [header |-> Undefined, partEntries |-> <<>>]
  /\ last = NoCall
  /\ prior = [op |-> "none", arg |-> NULL]

\* gpt.parseHeader(data, actualLba): #header becomes a new view
ParseHeader(data, actualLba) ==
  LET call == parseHeader(data, actualLba, sectorSize)
  IN /\ Called
     /\ header' = call.header
     /\ last' = [op |-> "parseHeader", arg |-> [data |-> data, actualLba |-> actualLba],
                 result |-> call.result, log |-> call.log]
     /\ alternate' = [alternate EXCEPT !.aliased = @ \ {"header"}]
     /\ UNCHANGED <<partEntries, orig, sectorSize>>

\* gpt.parsePartEntries(data) on a parsed header, with data that holds the
\* entries the header declares
ParsePartEntries(data) ==
  /\ header # Undefined
  /\ Len(data) >= header.numPartEntries * header.partEntrySize
  /\ header.partEntrySize >= ENTRY_BYTES
  /\ Len(partEntries) + header.numPartEntries <= MaxStored
  /\ LET call == parsePartEntries(header, partEntries, data)
     IN /\ Called
        /\ partEntries' = call.partEntries
        /\ last' = [op |-> "parsePartEntries", arg |-> [data |-> data],
                    result |-> call.result, log |-> call.log]
        /\ orig' = call.partEntries
        /\ UNCHANGED <<header, sectorSize, alternate>>

\* gpt.buildHeader(partEntries?)
BuildHeader(arg) ==
  /\ header # Undefined
  /\ LET call == buildHeader(header, partEntries, arg)
     IN /\ Called
        /\ header' = call.header
        /\ last' = [op |-> "buildHeader", arg |-> arg, result |-> call.result, log |-> <<>>]
        /\ alternate' = AliasedHeader(alternate, call.header)
        /\ UNCHANGED <<partEntries, orig, sectorSize>>

\* gpt.asAlternate()
AsAlternate ==
  /\ header # Undefined
  /\ LET call == asAlternate(header, partEntries, sectorSize)
     IN /\ Called
        /\ header' = call.header
        /\ alternate' = call.gpt
        /\ last' = [op |-> "asAlternate", arg |-> NULL, result |-> call.gpt, log |-> <<>>]
        /\ UNCHANGED <<partEntries, orig, sectorSize>>

\* gpt.getPartitions()
GetPartitions ==
  /\ Called
  /\ last' = [op |-> "getPartitions", arg |-> NULL, result |-> getPartitions(partEntries), log |-> <<>>]
  /\ UNCHANGED <<header, partEntries, orig, sectorSize, alternate>>

\* the original after the entries of the alternate became entries
AliasedOriginal(alt, entries, own) ==
  IF "partEntries" \in alt.aliased
  THEN [i \in 1 .. Len(own) |-> IF i <= Len(entries) THEN entries[i] ELSE own[i]]
  ELSE own

\* alternate.setActiveSlot(slot), on the GPT asAlternate returned
AlternateSetActiveSlot(slot) ==
  /\ alternate # NoGPT
  /\ Called
  /\ IF ~ValidSlot(slot)
     THEN /\ last' = [op |-> "alternate.setActiveSlot", arg |-> slot, result |-> "Invalid slot"]
          /\ UNCHANGED <<alternate, partEntries>>
     ELSE /\ last' = [op |-> "alternate.setActiveSlot", arg |-> slot, result |-> "ok"]
          /\ alternate' = [alternate EXCEPT !.partEntries = SetActiveSlotLoop(@, slot)]
          /\ partEntries' = AliasedOriginal(alternate, alternate'.partEntries, partEntries)
  /\ UNCHANGED <<header, orig, sectorSize>>

\* alternate.buildHeader(partEntries?)
AlternateBuildHeader(arg) ==
  /\ alternate # NoGPT
  /\ LET call == buildHeader(alternate.header, alternate.partEntries, arg)
     IN /\ Called
        /\ alternate' = [alternate EXCEPT !.header = call.header]
        /\ header' = IF "header" \in alternate.aliased THEN call.header ELSE header
        /\ last' = [op |-> "alternate.buildHeader", arg |-> arg, result |-> call.result, log |-> <<>>]
        /\ UNCHANGED <<partEntries, orig, sectorSize>>

\* a GPT that parses what it is given, rebuilds its header and lists its partitions
NextParse ==
  \/ \E data \in HeaderInputs : \E actualLba \in ActualLbaInputs(data) : ParseHeader(data, actualLba)
  \/ \E data \in EntriesInputs : ParsePartEntries(data)
  \/ \E arg \in BuildHeaderInputs : BuildHeader(arg)
  \/ GetPartitions

SpecParse == Constructed /\ [][NextParse]_vars

\* a GPT after parseHeader and parsePartEntries of what buildGPTData makes of
\* a table (createTestGPT), with no alternate yet
Parsed ==
  \E table \in DiskTables :
    LET data == TestHeaderData(TestHeaderView(table))
        hdr == parseHeader(data, 1, sectorSize).header
        entries == parsePartEntries(hdr, <<>>, TestEntriesData(table)).partEntries
    IN /\ sectorSize \in SectorSizeInputs
       /\ header = hdr
       /\ partEntries = entries
       /\ alternate = NoGPT
       /\ orig = entries
       /\ pre = [header |-> hdr, partEntries |-> entries]
       /\ last = NoCall
       /\ prior = [op |-> "none", arg |-> NULL]

\* a parsed GPT and its alternate, each changed and rebuilt on its own
NextAlternate ==
  \/ AsAlternate
  \/ \E slot \in AlternateSlotInputs : SetActiveSlot(slot)
  \/ BuildHeader(Omitted)
  \/ \E slot \in AlternateSlotInputs : AlternateSetActiveSlot(slot)
  \/ AlternateBuildHeader(Omitted)

SpecAlternate == Parsed /\ [][NextAlternate]_vars

----------------------------------------------------------------------------
(* Vocabulary of the properties of parsing and building *)

DidParseHeader == last.op = "parseHeader"
DidParsePartEntries == last.op = "parsePartEntries"
DidBuildHeader == last.op = "buildHeader"
DidGetPartitions == last.op = "getPartitions"

\* the header checksum, the entries checksum and the current LBA the bytes
\* of a header sector carry
StoredHeaderCrc32(data) == Int32At(data, 16)
StoredPartEntriesCrc32(data) == Int32At(data, 88)
StoredCurrentLba(data) == Uint64At(data, 24)

\* the checksum of the first 92 bytes of a header sector with bytes 16..19 zero
ZeroedFieldCrc32(data) == crc32(SetAt(SubSeq(data, 1, 92), <<0, 0, 0, 0>>, 16))

\* a header sector fails one of the three checks of a GPT of sector size ss
Refused(data, ss) ==
  \/ StringAt(data, 0, 8) # <<"E", "F", "I", " ", "P", "A", "R", "T">>
  \/ Uint32At(data, 8) # 65536
  \/ Uint32At(data, 12) < 92
  \/ Uint32At(data, 12) > ss

----------------------------------------------------------------------------
(* C11 *)

\* C11: parseHeader returns null when the decoded signature is not "EFI PART",
\* when the revision is not 0x00010000, or when the header size is below 92 or
\* above the sector size of the GPT; for a header that passes the three checks
\* it returns an object of the stored header checksum and a mismatch flag.
C11_ParseHeaderChecks ==
  DidParseHeader =>
    IF Refused(last.arg.data, sectorSize)
    THEN last.result = ReturnsNull
    ELSE /\ DOMAIN last.result = {"headerCrc32", "mismatchCrc32"}
         /\ last.result.headerCrc32 = StoredHeaderCrc32(last.arg.data)
         /\ last.result.mismatchCrc32 \in BOOLEAN

\* a header as large as one byte more than the sector was parsed, and refused
C11_Witness ==
  /\ DidParseHeader
  /\ Uint32At(last.arg.data, 12) > sectorSize
  /\ last.result = ReturnsNull

----------------------------------------------------------------------------
(* C12 *)

\* C12: parsing never corrects a checksum.  After parseHeader the stored header
\* checksum and the stored entries checksum are the values the input bytes
\* carry, mismatch or not, and the checksum returned is the stored one; after
\* parsePartEntries both are what they were before the call and the checksum
\* returned is the stored one; no call but parseHeader (which decodes them) and
\* buildHeader leaves a stored checksum other than it found it.
C12_ParsingKeepsChecksums ==
  /\ DidParseHeader =>
       /\ header.headerCrc32 = StoredHeaderCrc32(last.arg.data)
       /\ header.partEntriesCrc32 = StoredPartEntriesCrc32(last.arg.data)
       /\ last.result # ReturnsNull =>
            last.result.headerCrc32 = StoredHeaderCrc32(last.arg.data)
  /\ DidParsePartEntries => last.result.partEntriesCrc32 = header.partEntriesCrc32
  /\ (last.op \notin {"none", "parseHeader", "buildHeader"} /\ header # Undefined) =>
       /\ pre.header # Undefined
       /\ header.headerCrc32 = pre.header.headerCrc32
       /\ header.partEntriesCrc32 = pre.header.partEntriesCrc32

\* a header whose checksum does not match was parsed: the mismatch is flagged
\* and the stored checksum is still the one of the input
C12_Witness ==
  /\ DidParseHeader
  /\ last.result # ReturnsNull
  /\ last.result.mismatchCrc32
  /\ header.headerCrc32 = StoredHeaderCrc32(last.arg.data)
  /\ header.headerCrc32 # ZeroedFieldCrc32(last.arg.data)

----------------------------------------------------------------------------
(* C13 *)

\* parseHeader found the three checks passed, parsePartEntries returned: the
\* mismatch flag of the result is the mismatch of the stored checksum
AdvisoryChecksums ==
  /\ (DidParseHeader /\ ~Refused(last.arg.data, sectorSize)) =>
       /\ last.result # ReturnsNull
       /\ last.result.mismatchCrc32 =
            (StoredHeaderCrc32(last.arg.data) # ZeroedFieldCrc32(last.arg.data))
  /\ DidParsePartEntries =>
       /\ ~Threw(last.result)
       /\ last.result.mismatchCrc32 =
            (header.partEntriesCrc32 # crc32(buildPartEntries(header, partEntries)))

\* the LBAs a header sector may be said to have been read from: the one it
\* carries and the next
ExpectedLbas(data) == {StoredCurrentLba(data), StoredCurrentLba(data) + 1}

\* C13 as stated: neither checksum mismatch nor an unexpected current LBA makes
\* a parse fail, and each of the three is returned in the parse result: the
\* result of parseHeader for the LBA the header carries differs from its result
\* for another LBA.
C13_AdvisoryReturned ==
  /\ AdvisoryChecksums
  /\ (DidParseHeader /\ ~Refused(last.arg.data, sectorSize)) =>
       \A lba \in ExpectedLbas(last.arg.data) :
         (lba = StoredCurrentLba(last.arg.data)) # (last.arg.actualLba = StoredCurrentLba(last.arg.data))
           => parseHeader(last.arg.data, lba, sectorSize).result # last.result

\* C13, amended: neither checksum mismatch nor an unexpected current LBA makes
\* a parse fail; each checksum mismatch is returned as the mismatch flag of the
\* parse result; an unexpected current LBA is logged as a warning and is no
\* part of the result, which is the same for every expected LBA.
C13_AdvisoryLogged ==
  /\ AdvisoryChecksums
  /\ (DidParseHeader /\ ~Refused(last.arg.data, sectorSize)) =>
       /\ (last.arg.actualLba # StoredCurrentLba(last.arg.data))
            <=> (\E i \in 1 .. Len(last.log) : last.log[i] = Logged("warn", "currentLba"))
       /\ \A lba \in ExpectedLbas(last.arg.data) :
            parseHeader(last.arg.data, lba, sectorSize).result = last.result

\* a header with a matching checksum was parsed as read from another LBA than
\* the one it carries: a result came back, with no mismatch flagged
C13_Witness ==
  /\ DidParseHeader
  /\ last.arg.actualLba # StoredCurrentLba(last.arg.data)
  /\ last.result # ReturnsNull
  /\ ~last.result.mismatchCrc32
  /\ last.log = <<Logged("warn", "currentLba")>>

----------------------------------------------------------------------------
(* C14 *)

\* the bytes of an entry array that the header in force declares
DeclaredBytes(hdr) == hdr.numPartEntries * hdr.partEntrySize

\* buffers that agree with data on the declared bytes and differ after them
SamePrefix(data, n) ==
  { SubSeq(data, 1, n), SubSeq(data, 1, n) \o <<0, 0, 0, 0>>, SubSeq(data, 1, n) \o <<255>> }
  \cup { other \in EntriesInputs : Len(other) >= n /\ SubSeq(other, 1, n) = SubSeq(data, 1, n) }

\* C14: parsePartEntries checksums the re-encoded decoded entries, not the raw
\* input: a buffer that agrees with the parsed one on the first numPartEntries *
\* partEntrySize bytes and differs only after them gives the same entries and
\* the same mismatch flag.
C14_TrailingBytesIgnored ==
  DidParsePartEntries =>
    \A other \in SamePrefix(last.arg.data, DeclaredBytes(pre.header)) :
      LET call == parsePartEntries(pre.header, pre.partEntries, other)
      IN /\ call.partEntries = partEntries
         /\ call.result.mismatchCrc32 = last.result.mismatchCrc32

\* an array of one entry followed by four more bytes was parsed under a header
\* that declares one entry and carries its checksum: no mismatch
C14_Witness ==
  /\ DidParsePartEntries
  /\ pre.header.numPartEntries = 1
  /\ Len(last.arg.data) > DeclaredBytes(pre.header)
  /\ ~last.result.mismatchCrc32
  /\ Len(partEntries) = Len(pre.partEntries) + 1

----------------------------------------------------------------------------
(* C16 *)

\* the entries bytes a buildHeader call on [header, partEntries] checksums,
\* when it gets as far as that
BuildHeaderReads(arg, hdr, entries) == arg.given \/ CanBuildPartEntries(hdr, entries)
EntriesBytes(arg, hdr, entries) ==
  IF arg.given THEN arg.bytes ELSE buildPartEntries(hdr, entries)

\* C16: buildHeader throws, returning no bytes, when the checksum of the
\* entries bytes is exactly zero, and when the checksum of the encoded header
\* with its checksum field zeroed is exactly zero; the header bytes it returns
\* never carry a zero entries checksum or a zero header checksum, nor does the
\* header of the GPT then.
C16_ZeroChecksumRefused ==
  DidBuildHeader =>
    /\ BuildHeaderReads(last.arg, pre.header, pre.partEntries) =>
         LET entriesCrc32 == crc32(EntriesBytes(last.arg, pre.header, pre.partEntries))
             encoded == HeaderToBuffer([pre.header EXCEPT !.partEntriesCrc32 = entriesCrc32,
                                                          !.headerCrc32 = 0])
         IN (entriesCrc32 = 0 \/ crc32(encoded) = 0) => Threw(last.result)
    /\ ~Threw(last.result) =>
         /\ StoredHeaderCrc32(last.result.bytes) # 0
         /\ StoredPartEntriesCrc32(last.result.bytes) # 0
         /\ header.headerCrc32 # 0
         /\ header.partEntriesCrc32 # 0

\* buildHeader was called with entries whose checksum is not zero on a header
\* whose own checksum then is zero, and threw
C16_Witness ==
  /\ DidBuildHeader
  /\ Threw(last.result)
  /\ BuildHeaderReads(last.arg, pre.header, pre.partEntries)
  /\ header.partEntriesCrc32 # 0
  /\ header.partEntriesCrc32 = crc32(EntriesBytes(last.arg, pre.header, pre.partEntries))
  /\ crc32(HeaderToBuffer([header EXCEPT !.headerCrc32 = 0])) = 0

\* buildHeader was called on a header that declares no entries, so that the
\* entries bytes are none and their checksum is zero, and threw
C16_WitnessNoEntries ==
  /\ DidBuildHeader
  /\ ~last.arg.given
  /\ pre.header.numPartEntries = 0
  /\ Threw(last.result)
  /\ header.partEntriesCrc32 = 0

----------------------------------------------------------------------------
(* C20 *)

\* the positions of the entries whose type is not the sixteen zero bytes
UsedPositions(entries) ==
  { i \in 1 .. Len(entries) : entries[i].type # GuidAt(Zeros(16), 0) }

\* the k-th of them
UsedPosition(entries, k) ==
  CHOOSE i \in UsedPositions(entries) :
    Cardinality({ j \in UsedPositions(entries) : j <= i }) = k

\* C20: getPartitions returns exactly the entries whose type is not the
\* all-zero identifier, in the order they are stored, each with its type, unique
\* identifier, LBAs and name and with sectors = end - start + 1; the header and
\* the entries of the GPT are as before the call.
C20_GetPartitions ==
  DidGetPartitions =>
    /\ Len(last.result) = Cardinality(UsedPositions(pre.partEntries))
    /\ \A k \in 1 .. Len(last.result) :
         LET entry == pre.partEntries[UsedPosition(pre.partEntries, k)]
             partition == last.result[k]
         IN /\ partition.type = entry.type
            /\ partition.uuid = entry.unique
            /\ partition.name = entry.name
            /\ partition.start = entry.startingLba
            /\ partition.end = entry.endingLba
            /\ partition.sectors = entry.endingLba - entry.startingLba + 1
    /\ header = pre.header
    /\ partEntries = pre.partEntries

\* a table with an unused entry between two used ones was listed: two
\* partitions, the first stored first
C20_Witness ==
  /\ DidGetPartitions
  /\ Len(partEntries) = 3
  /\ Len(last.result) = 2
  /\ last.result[1].name = partEntries[1].name
  /\ last.result[2].name = partEntries[3].name
  /\ last.result[1].name # last.result[2].name
  /\ last.result[2].sectors = 100

----------------------------------------------------------------------------
(* Vocabulary of the properties of the alternate *)

DidAsAlternate == last.op = "asAlternate"
DidAlternateBuildHeader == last.op = "alternate.buildHeader"

\* the attributes of the entries, in order
AttributesOf(entries) == [i \in 1 .. Len(entries) |-> entries[i].attributes]

\* the least number of sectors of ss bytes that hold the given bytes
SectorsFor(bytes, ss) ==
  CHOOSE k \in 0 .. bytes : k * ss >= bytes /\ (k > 0 => (k - 1) * ss < bytes)

\* header bytes carry the checksum of themselves with the field zeroed, and
\* it is the one the header hdr stores
ChecksumHolds(bytes, hdr) ==
  /\ ZeroedFieldCrc32(bytes) = StoredHeaderCrc32(bytes)
  /\ StoredHeaderCrc32(bytes) = hdr.headerCrc32

----------------------------------------------------------------------------
(* C15 *)

\* C15: after every buildHeader that returns, on a parsed GPT or on its
\* alternate, whatever setActiveSlot, asAlternate and buildHeader calls came
\* before, the checksum of the returned bytes with bytes 16..19 zeroed is the
\* header checksum those bytes carry and the one the header of that GPT stores.
C15_BuiltChecksumHolds ==
  /\ (DidBuildHeader /\ ~Threw(last.result)) => ChecksumHolds(last.result.bytes, header)
  /\ (DidAlternateBuildHeader /\ ~Threw(last.result)) =>
       ChecksumHolds(last.result.bytes, alternate.header)

\* the header of an alternate whose slot was switched was built: its LBAs are
\* swapped and its entries are no longer those of the original
C15_Witness ==
  /\ DidAlternateBuildHeader
  /\ ~Threw(last.result)
  /\ alternate.header.currentLba = header.alternateLba
  /\ AttributesOf(alternate.partEntries) # AttributesOf(partEntries)
  /\ alternate.header.headerCrc32 # header.headerCrc32

----------------------------------------------------------------------------
(* C17 *)

\* the header fields asAlternate stores to
SwappedFields == {"currentLba", "alternateLba", "partEntriesStartLba"}

\* C17: the GPT asAlternate returns has the original's alternate LBA as its
\* current LBA, the original's current LBA as its alternate LBA, and as its
\* partition-entries start LBA the original's alternate LBA minus the least
\* number of sectors that hold numPartEntries * partEntrySize bytes; every other
\* header field and the sector size are the original's.  partEntriesSectors is
\* that number of sectors for every entry count and sector size tried.
C17_AlternateLbas ==
  /\ DidAsAlternate =>
       /\ alternate.header.currentLba = pre.header.alternateLba
       /\ alternate.header.alternateLba = pre.header.currentLba
       /\ alternate.header.partEntriesStartLba =
            pre.header.alternateLba
              - SectorsFor(pre.header.numPartEntries * pre.header.partEntrySize, sectorSize)
       /\ \A field \in DOMAIN pre.header \ SwappedFields :
            alternate.header[field] = pre.header[field]
       /\ alternate.sectorSize = sectorSize
  /\ \A n \in 0 .. MaxParsed + 5 : \A ss \in {128, 256, 512, 4096} :
       partEntriesSectors([numPartEntries |-> n, partEntrySize |-> 128], ss)
         = SectorsFor(n * 128, ss)

\* the alternate of a table with entries was made: its entries start one
\* sector before the original's alternate LBA
C17_Witness ==
  /\ DidAsAlternate
  /\ pre.header.numPartEntries > 0
  /\ alternate.header.currentLba = 65535
  /\ alternate.header.alternateLba = 1
  /\ alternate.header.partEntriesStartLba = 65534

----------------------------------------------------------------------------
(* C18 *)

\* C18: asAlternate leaves the header and the entries of the GPT it is called
\* on as they were, and the GPT it returns shares nothing with it: a
\* setActiveSlot or buildHeader call on the original leaves the header fields
\* and every entry's attributes of the alternate as they were, and such a call
\* on the alternate leaves those of the original as they were.
C18_AlternateIndependent ==
  [][ /\ last'.op = "asAlternate" =>
           /\ header' = header
           /\ partEntries' = partEntries
      /\ (last'.op \in {"setActiveSlot", "buildHeader"} /\ alternate # NoGPT) =>
           /\ alternate'.header = alternate.header
           /\ AttributesOf(alternate'.partEntries) = AttributesOf(alternate.partEntries)
      /\ last'.op \in {"alternate.setActiveSlot", "alternate.buildHeader"} =>
           /\ header' = header
           /\ AttributesOf(partEntries') = AttributesOf(partEntries) ]_vars

\* the slot of the original was switched after its alternate was made: the
\* attributes of the original changed and are no longer those of the alternate
C18_Witness ==
  /\ last.op = "setActiveSlot"
  /\ alternate # NoGPT
  /\ partEntries # pre.partEntries
  /\ AttributesOf(alternate.partEntries) = AttributesOf(pre.partEntries)
  /\ AttributesOf(alternate.partEntries) # AttributesOf(partEntries)

----------------------------------------------------------------------------
(* C19 *)

\* C19: asAlternate recomputes nothing: the header checksum and the entries
\* checksum the returned GPT stores are the ones the original stored when it
\* was called, and its entries are the original's, field by field, in the same
\* order.
C19_AlternateCopies ==
  DidAsAlternate =>
    /\ alternate.header.headerCrc32 = pre.header.headerCrc32
    /\ alternate.header.partEntriesCrc32 = pre.header.partEntriesCrc32
    /\ Len(alternate.partEntries) = Len(pre.partEntries)
    /\ \A i \in 1 .. Len(pre.partEntries) :
         \A field \in {"type", "unique", "startingLba", "endingLba", "attributes", "name"} :
           alternate.partEntries[i][field] = pre.partEntries[i][field]

\* the alternate of a table of several entries was made: the header checksum
\* it stores is the original's, which is not the checksum of its own header
C19_Witness ==
  /\ DidAsAlternate
  /\ Len(alternate.partEntries) > 1
  /\ alternate.partEntries[1] # alternate.partEntries[Len(alternate.partEntries)]
  /\ alternate.header.headerCrc32 = header.headerCrc32
  /\ alternate.header.headerCrc32 # crc32(HeaderToBuffer([alternate.header EXCEPT !.headerCrc32 = 0]))

----------------------------------------------------------------------------
(* locatePartition *)

\* Array.prototype.find: the first element whose name is name, or undefined
Find(partitions, name) ==
  LET found == { i \in 1 .. Len(partitions) : partitions[i].name = name }
  IN IF found = {} THEN Undefined
     ELSE partitions[CHOOSE i \in found : \A j \in found : i <= j]

\* variant: find over every stored entry, the filter of getPartitions left out
locatePartition_Unfiltered(entries, name) ==
  Find([i \in 1 .. Len(entries) |-> Partition(entries[i])], name)

\* locatePartition(name)
locatePartition(entries, name) == Find(getPartitions(entries), name)

\* the names locatePartition is called with: names of stored entries, a proper
\* prefix of stored names, and a stored name in another case
LocateInputs ==
  {Name_boot_a, Name_aop_b, Str_boot, <<"B", "O", "O", "T", "_", "A">>}

\* gpt.locatePartition(name)
LocatePartition(name) ==
  /\ Called
  /\ last' = [op |-> "locatePartition", arg |-> name, result |-> locatePartition(partEntries, name)]
  /\ UNCHANGED <<header, partEntries, orig, sectorSize, alternate>>

NextLocate == \E name \in LocateInputs : LocatePartition(name)

\* a parsed GPT that is asked for partitions by name
SpecLocate == Init /\ [][NextLocate]_vars

DidLocatePartition == last.op = "locatePartition"

\* the positions of the non-empty entries named name
Located(entries, name) ==
  { i \in 1 .. Len(entries) : NonEmpty(entries[i]) /\ entries[i].name = name }

\* C21: locatePartition(name) returns the first entry in stored order whose
\* type is not the unused identifier and whose name is exactly name, as the
\* partition getPartitions lists for it, and returns undefined when there is
\* no such entry; an unused entry is never returned.
C21_LocatePartition ==
  DidLocatePartition =>
    LET located == Located(partEntries, last.arg)
    IN IF located = {} THEN last.result = Undefined
       ELSE LET first == CHOOSE i \in located : \A j \in located : i <= j
                entry == partEntries[first]
            IN /\ last.result # Undefined
               /\ last.result.uuid = entry.unique
               /\ last.result.name = last.arg
               /\ last.result.type = entry.type
               /\ last.result.type # TYPE_EFI_UNUSED
               /\ last.result.start = entry.startingLba
               /\ last.result.end = entry.endingLba

\* the name asked for is carried by an unused entry stored first and by a
\* used entry stored after it: the used one is returned
C21_Witness ==
  /\ DidLocatePartition
  /\ Len(partEntries) >= 2
  /\ ~NonEmpty(partEntries[1]) /\ partEntries[1].name = last.arg
  /\ NonEmpty(partEntries[2]) /\ partEntries[2].name = last.arg
  /\ last.result # Undefined
  /\ last.result.uuid = partEntries[2].unique

\* the name asked for is carried by an unused entry only: nothing is returned
C21_WitnessUnusedOnly ==
  /\ DidLocatePartition
  /\ \E i \in Indices : ~NonEmpty(partEntries[i]) /\ partEntries[i].name = last.arg
  /\ Located(partEntries, last.arg) = {}
  /\ last.result = Undefined

----------------------------------------------------------------------------
(* C22 *)

\* the checksum of the bytes a header sector declares as its header (its
\* first headerSize bytes) with bytes 16..19 zero
DeclaredWidthCrc32(data) ==
  crc32(SetAt(SubSeq(data, 1, Uint32At(data, 12)), <<0, 0, 0, 0>>, 16))

\* C22: for a header that passes the three checks, of any declared size from
\* 92 to the sector size, parseHeader flags no mismatch exactly when the stored
\* header checksum is the checksum of the first headerSize bytes of the header
\* with the checksum field zeroed.
C22_DeclaredWidthChecksum ==
  (/\ DidParseHeader
   /\ ~Refused(last.arg.data, sectorSize)
   /\ Uint32At(last.arg.data, 12) <= Len(last.arg.data)) =>
     (~last.result.mismatchCrc32)
       <=> (StoredHeaderCrc32(last.arg.data) = DeclaredWidthCrc32(last.arg.data))

----------------------------------------------------------------------------
(* C23 *)

\* C23: after a successful setActiveSlot(s), whatever calls came before it,
\* every non-empty entry whose name ends in "_a" or "_b", boot or not, has
\* its active bit (bit 50) set if and only if its suffix is the one of s.
C23_ActiveIffSlot ==
  DidSetActiveSlot =>
    \A i \in Indices :
      LET e == partEntries[i] IN
      (NonEmpty(e) /\ Slotted(e)) =>
        (ActiveOf(e.attributes) <=> SuffixSlot(e) = last.arg)

\* the slot was switched from one to the other by two calls in a row: a boot
\* entry lost the active bit the first call gave it and a non-boot entry of
\* the new slot gained it, or the other way round
C23_Witness ==
  /\ DidSetActiveSlot
  /\ prior.op = "setActiveSlot" /\ prior.arg \in {Slot_a, Slot_b} /\ prior.arg # last.arg
  /\ \E i, j \in Indices :
       /\ NonEmpty(partEntries[i]) /\ Slotted(partEntries[i])
       /\ NonEmpty(partEntries[j]) /\ Slotted(partEntries[j])
       /\ BootNamed(partEntries[i]) # BootNamed(partEntries[j])
       /\ SuffixSlot(partEntries[i]) = prior.arg
       /\ SuffixSlot(partEntries[j]) = last.arg
       /\ ActiveOf(pre.partEntries[i].attributes) /\ ~ActiveOf(partEntries[i].attributes)
       /\ ~ActiveOf(pre.partEntries[j].attributes) /\ ActiveOf(partEntries[j].attributes)

----------------------------------------------------------------------------
(* C24 *)

\* a fresh GPT of sector size ss parses the header bytes buildHeader() returned
\* on a GPT of header hdr and entries entries, then the bytes of its
\* buildPartEntries(): neither parse flags a mismatch and the entries parsed
\* carry the attributes of entries
RoundTrip(bytes, hdr, entries, ss) ==
  LET parsedHeader == parseHeader(bytes, StoredCurrentLba(bytes), ss)
      parsedEntries == parsePartEntries(parsedHeader.header, <<>>, buildPartEntries(hdr, entries))
  IN /\ parsedHeader.result # ReturnsNull
     /\ ~parsedHeader.result.mismatchCrc32
     /\ ~parsedEntries.result.mismatchCrc32
     /\ AttributesOf(parsedEntries.partEntries) = AttributesOf(entries)

\* C24: on a parsed GPT, after any setActiveSlot calls and on the GPT itself or
\* on its alternate, when buildHeader() without argument returns, a fresh GPT of
\* the same sector size that parses the returned bytes and then the bytes of
\* buildPartEntries() finds no header checksum mismatch and no entries checksum
\* mismatch and holds the same entry attributes.
C24_BuildParseRoundTrip ==
  /\ (DidBuildHeader /\ ~last.arg.given /\ ~Threw(last.result)) =>
       RoundTrip(last.result.bytes, header, partEntries, sectorSize)
  /\ (DidAlternateBuildHeader /\ ~last.arg.given /\ ~Threw(last.result)) =>
       RoundTrip(last.result.bytes, alternate.header, alternate.partEntries, alternate.sectorSize)

\* the alternate of a table of several entries was switched to another slot
\* than the original and rebuilt: the bytes parsed back carry attributes that
\* are neither those first parsed nor those of the original
C24_Witness ==
  /\ DidAlternateBuildHeader
  /\ ~Threw(last.result)
  /\ Len(alternate.partEntries) > 1
  /\ StoredCurrentLba(last.result.bytes) = header.alternateLba
  /\ AttributesOf(alternate.partEntries) # AttributesOf(orig)
  /\ AttributesOf(alternate.partEntries) # AttributesOf(partEntries)
  /\ AttributesOf(partEntries) # AttributesOf(orig)

----------------------------------------------------------------------------
(* C25 *)

\* a header that passes the three checks of parseHeader
Accepted(hdr, ss) ==
  /\ hdr # Undefined
  /\ hdr.signature = SIGNATURE
  /\ hdr.revision = 65536
  /\ hdr.headerSize >= 92 /\ hdr.headerSize <= ss

\* the entries the header in force declares, decoded from an entry array
DecodedEntries(hdr, data) ==
  [i \in 1 .. hdr.numPartEntries |->
     EntryFrom(Slice(data, (i - 1) * hdr.partEntrySize, i * hdr.partEntrySize))]

\* C25: after every parsePartEntries call on a GPT whose header passed the
\* checks, the first such call or a later one, the GPT holds exactly
\* numPartEntries entries, and they are the entries decoded from the input of
\* that call.
C25_HoldsDeclaredEntries ==
  (DidParsePartEntries /\ Accepted(header, sectorSize)) =>
    /\ Len(partEntries) = header.numPartEntries
    /\ partEntries = DecodedEntries(header, last.arg.data)

----------------------------------------------------------------------------
(* C26 *)

\* the header fields the getters of a GPT read
ReadableFields(hdr) ==
  [ headerCrc32 |-> hdr.headerCrc32,
    partEntriesCrc32 |-> hdr.partEntriesCrc32,
    currentLba |-> hdr.currentLba,
    alternateLba |-> hdr.alternateLba,
    firstUsableLba |-> hdr.firstUsableLba,
    lastUsableLba |-> hdr.lastUsableLba,
    partEntriesStartLba |-> hdr.partEntriesStartLba,
    numPartEntries |-> hdr.numPartEntries,
    partEntrySize |-> hdr.partEntrySize ]

\* C26: a parseHeader call that returns null, on a GPT that holds a header
\* which passed the checks, leaves the GPT as it was: the header fields read
\* afterwards are those of the earlier header, and the entries are the same.
C26_FailedParseKeepsHeader ==
  (/\ DidParseHeader
   /\ last.result = ReturnsNull
   /\ Accepted(pre.header, sectorSize)) =>
     /\ ReadableFields(header) = ReadableFields(pre.header)
     /\ partEntries = pre.partEntries

====
